---- MODULE Spec2Model ----
(***************************************************************************)
(* A model of pyweatherfetch: the weather pipeline of _openweathermap.py   *)
(* (cache lookup, fetch, cache write, normalisation), the template         *)
(* renderer of _main.py and the named-location commands of _main.py and    *)
(* _config.py.                                                             *)
(*                                                                         *)
(* Conventions.  Python's None is the string "None".  A raised exception   *)
(* is a record [exc |-> <class name>].  Degrees are counted in hundredths  *)
(* of a degree, so that the table bounds (11.25, 33.75, ...) are integers. *)
(* A float read from JSON is counted in eighths: every k/8 is exactly      *)
(* representable in binary, so Decimal(float) is exactly k/8.              *)
(***************************************************************************)
EXTENDS Integers, Sequences, FiniteSets, TLC

VARIABLES
    degrees, direction,          \* _interpret_direction: input, result
    data, filtered,              \* _filter_data: input payload, result
    cache, now, ticks,           \* the cache directory, the clock
    cache_duration,              \* config general.cache_duration (minutes)
    last,                        \* what the last get_weather invocation did
    locations, default_location, \* config [locations], general.default_location
    echoed,                      \* what the last location command echoed
    templates, default_template, \* config [templates], general.default_template
    rendered                     \* what the last _apply_template call did

dirVars    == <<degrees, direction>>
filterVars == <<data, filtered>>
cacheVars  == <<cache, now, ticks, cache_duration, last>>
locVars    == <<locations, default_location, echoed>>
tmplVars   == <<templates, default_template, rendered>>
vars       == <<dirVars, filterVars, cacheVars, locVars, tmplVars>>

None == "None"

\* The value of a variable no operation has written yet.
NotRun == "notrun"

(***************************************************************************)
(* _interpret_direction                                                    *)
(***************************************************************************)

\* The table of the sixteen wedges: lower bound, upper bound, label.
cardinals ==
    << <<34875,  1125, "N">>,   <<1125,   3375, "NNE">>,
       <<3375,   5625, "NE">>,  <<5625,   7875, "ENE">>,
       <<7875,  10125, "E">>,   <<10125, 12375, "ESE">>,
       <<12375, 14625, "SE">>,  <<14625, 16875, "SSE">>,
       <<16875, 19125, "S">>,   <<19125, 21375, "SSW">>,
       <<21375, 23625, "SW">>,  <<23625, 25875, "WSW">>,
       <<25875, 28125, "W">>,   <<28125, 30375, "WNW">>,
       <<30375, 32625, "NW">>,  <<32625, 34875, "NNW">> >>

\* The looser criterion of the loop: degrees >= c[0] or degrees < c[1].
LooseMatch(d, c) == d >= c[1] \/ d < c[2]

\* A slip in the inner test: the upper bound taken as inclusive.
TightMatchInclusive(d, c) == d >= c[1] /\ d <= c[2]

\* The criterion of the inner test: degrees >= c[0] and degrees < c[1].
TightMatch(d, c) == d >= c[1] /\ d < c[2]

\* The loop over the table from index i on; candidate is the index of the
\* first loosely matching wedge, 0 while there is none (candidate = None).
RECURSIVE DirectionLoop(_, _, _)
DirectionLoop(d, i, candidate) ==
    IF i > Len(cardinals)
    THEN IF candidate # 0 THEN cardinals[candidate][3] ELSE None
    ELSE LET c == cardinals[i] IN
         IF LooseMatch(d, c)
         THEN IF candidate = 0
              THEN DirectionLoop(d, i + 1, i)
              ELSE IF TightMatch(d, c)
                   THEN c[3]
                   ELSE DirectionLoop(d, i + 1, candidate)
         ELSE DirectionLoop(d, i + 1, candidate)

_interpret_direction(d) == DirectionLoop(d, 1, 0)

(***************************************************************************)
(* _filter_data                                                            *)
(***************************************************************************)

\* The keys of _icons.
_icons ==
    {"01d", "01n", "02d", "02n", "03d", "03n", "04d", "04n", "09d", "09n",
     "10d", "10n", "11d", "11n", "13d", "13n", "50d", "50n"}

\* _icon_colours, a function of the icon code.
_icon_colours ==
    [c \in {"01d", "01n", "02d", "02n", "03d", "03n", "04d", "04n", "09d",
            "09n", "10d", "10n", "11d", "11n", "13d", "13n", "50d", "50n"} |->
        CASE c = "01d" -> "#e5c07b" [] c = "01n" -> "#34e2e2"
          [] c = "02d" -> "#e5c07b" [] c = "02n" -> "#34e2e2"
          [] c = "03d" -> "#eea825" [] c = "03n" -> "#56b6c2"
          [] c = "04d" -> "#abb2bf" [] c = "04n" -> "#6f737b"
          [] c = "09d" -> "#abb2bf" [] c = "09n" -> "#6f737b"
          [] c = "10d" -> "#abb2bf" [] c = "10n" -> "#6f737b"
          [] c = "11d" -> "#e06c75" [] c = "11n" -> "#e05661"
          [] c = "13d" -> "#f2f2f2" [] c = "13n" -> "#abb2bf"
          [] c = "50d" -> "#abb2bf" [] c = "50n" -> "#6f737b"]

Abs(n) == IF n < 0 THEN 0 - n ELSE n

Sign(n) == IF n < 0 THEN 0 - 1 ELSE 1

\* 10 to the power of places.
RECURSIVE Pow10(_)
Pow10(places) == IF places = 0 THEN 1 ELSE 10 * Pow10(places - 1)

\* Rounding a tie away from zero (ROUND_HALF_UP), which is not the mode of
\* the default decimal context.
RoundTieAwayFromZero(q, twice_r, den) ==
    IF twice_r >= den THEN q + 1 ELSE q

\* The rounding of the default decimal context, ROUND_HALF_EVEN: q is the
\* truncated quotient, twice_r twice the remainder, den the divisor.
RoundDefaultContext(q, twice_r, den) ==
    IF twice_r > den \/ (twice_r = den /\ q % 2 = 1) THEN q + 1 ELSE q

\* Decimal(x).quantize(Decimal('.0')) or (Decimal('.00')) of the float
\* x = eighths / 8: the number of units of 10^-places of the result.
Quantize(eighths, places) ==
    LET n == Abs(eighths) * Pow10(places)
    IN  Sign(eighths) * RoundDefaultContext(n \div 8, 2 * (n % 8), 8)

\* The report no call has produced.
NoReport ==
    [kind |-> "none", exc |-> "", temperature |-> 0, feels_like |-> 0,
     pressure |-> 0, humidity |-> 0, icon |-> "", icon_colour |-> "",
     wind_speed |-> 0, wind_direction |-> "",
     calculated_at |-> 0, sunrise |-> 0, sunset |-> 0]

RaiseReport(e) == [NoReport EXCEPT !.kind = "raise", !.exc = e]

\* _filter_data of a payload: the report, or the KeyError of the first
\* lookup that fails.  A payload is
\*   [temp, feels_like : eighths, pressure, humidity : Int, icon : STRING,
\*    has_wind : BOOLEAN, speed : eighths, deg : hundredths of a degree,
\*    dt, sunrise, sunset : epoch seconds, timezone : seconds east of UTC].
\* A datetime of the report is the epoch second it shows on the clock of
\* its zone: UTC for calculated_at, the payload's offset for the other two.
_filter_data(d) ==
    IF d.icon \notin _icons THEN RaiseReport("KeyError")
    ELSE IF ~d.has_wind THEN RaiseReport("KeyError")
    ELSE [kind           |-> "return",
          exc            |-> "",
          temperature    |-> Quantize(d.temp, 1),
          feels_like     |-> Quantize(d.feels_like, 1),
          pressure       |-> d.pressure,
          humidity       |-> d.humidity,
          icon           |-> "glyph " \o d.icon,
          icon_colour    |-> _icon_colours[d.icon],
          wind_speed     |-> Quantize(d.speed, 2),
          wind_direction |-> _interpret_direction(d.deg),
          calculated_at  |-> d.dt,
          sunrise        |-> d.sunrise + d.timezone,
          sunset         |-> d.sunset + d.timezone]

(***************************************************************************)
(* The cache and get_weather                                               *)
(***************************************************************************)

\* timedelta(minutes=1) in seconds.
SecondsPerMinute == 60

\* get_cache_duration()'s default.
DefaultCacheDuration == 30

\* The clock is read at most this many times at a later instant.
MaxTicks == 2

\* The time that passes between two commands: a second, or a minute.
Elapsed == {1, SecondsPerMinute}

\* The durations the set-cache command is given.
Durations == {1}

\* The requests: latitude and longitude by their string forms.
Requests ==
    { [latitude |-> "1",  longitude |-> "23", units |-> "metric"],
      [latitude |-> "12", longitude |-> "3",  units |-> "metric"],
      [latitude |-> "12", longitude |-> "3",  units |-> "imperial"] }

NoRequest == [latitude |-> "", longitude |-> "", units |-> ""]

\* sha1 of the bytes fed to it, as a digest that identifies them (no two
\* texts of the model collide).
Sha1Hex(text) == "sha1:" \o text

\* _get_cache_hash: the three updates feed the digest the concatenation.
_get_cache_hash(latitude, longitude, units) ==
    Sha1Hex(latitude \o longitude \o units)

Key(req) == _get_cache_hash(req.latitude, req.longitude, req.units)

Keys == { Key(r) : r \in Requests }

\* The payloads the provider answers with.
GoodData ==
    [temp |-> 170, feels_like |-> 156, pressure |-> 1013, humidity |-> 40,
     icon |-> "01d", has_wind |-> TRUE, speed |-> 27, deg |-> 18000,
     dt |-> 43200, sunrise |-> 21600, sunset |-> 66600, timezone |-> 3600]

UnknownIconData == [GoodData EXCEPT !.icon = "99x"]

Bodies == {GoodData, UnknownIconData}

\* A file's text: the JSON of a payload answered to request `for`, or the
\* text a failed write left behind.
Text(req, d) == [json |-> "ok", for |-> req, data |-> d]

Truncated == [json |-> "truncated", for |-> NoRequest, data |-> GoodData]

NoText == [json |-> "none", for |-> NoRequest, data |-> GoodData]

\* A cache file, or its absence.
NoFile == [exists |-> FALSE, mtime |-> 0, text |-> NoText]

File(t, text) == [exists |-> TRUE, mtime |-> t, text |-> text]

\* What a function of the pipeline hands back: a value (None is NoText),
\* or an exception.
Return(v) == [kind |-> "return", exc |-> "", value |-> v]

Raise(e) == [kind |-> "raise", exc |-> e, value |-> NoText]

\* A slip in the freshness test: an entry as old as the duration is stale.
IsStaleAtEqual(curtime, mtime, duration) ==
    curtime - mtime >= duration * SecondsPerMinute

\* curtime - mtime > timedelta(minutes=cache_duration)
IsStale(curtime, mtime, duration) ==
    curtime - mtime > duration * SecondsPerMinute

\* _get_cached: read_fails says that opening the file raises OSError.
_get_cached(c, req, curtime, duration, read_fails) ==
    LET f == c[Key(req)] IN
    IF ~f.exists THEN Return(NoText)
    ELSE IF IsStale(curtime, f.mtime, duration) THEN Return(NoText)
    ELSE IF read_fails THEN Raise("OSError")
    ELSE IF f.text.json # "ok" THEN Raise("JSONDecodeError")
    ELSE Return(f.text)

\* The responses of the provider: no response at all (the request raises),
\* a status with a body.
Responses ==
    { [sent |-> FALSE, status |-> 0, body |-> GoodData] }
    \cup [sent : {TRUE}, status : {200}, body : Bodies]
    \cup { [sent |-> TRUE, status |-> 500, body |-> GoodData] }

\* How the write of the cache file goes: it succeeds, open() raises and the
\* file is untouched, or the dump raises after open() has truncated it.
Writes == {"ok", "open_fails", "dump_fails"}

\* _cache_response: the directory afterwards and the exception, if any.
_cache_response(c, d, req, curtime, write) ==
    CASE write = "ok" ->
           [cache |-> [c EXCEPT ![Key(req)] = File(curtime, Text(req, d))],
            result |-> Return(NoText)]
      [] write = "open_fails" ->
           [cache |-> c, result |-> Raise("OSError")]
      [] write = "dump_fails" ->
           [cache |-> [c EXCEPT ![Key(req)] = File(curtime, Truncated)],
            result |-> Raise("OSError")]

\* A slip: the response is cached before its status is looked at.
FreshCachingAnyStatus(c, req, curtime, resp, write) ==
    IF ~resp.sent THEN [cache |-> c, result |-> Raise("MaxRetryError")]
    ELSE LET w == _cache_response(c, resp.body, req, curtime, write) IN
         IF resp.status # 200
         THEN [cache |-> w.cache, result |-> Raise("APIError")]
         ELSE IF w.result.kind = "raise" THEN w
         ELSE [cache |-> w.cache, result |-> Return(Text(req, resp.body))]

\* A slip: the payload is cached only once it is known to normalise.
FreshCachingOnlyValid(c, req, curtime, resp, write) ==
    IF ~resp.sent THEN [cache |-> c, result |-> Raise("MaxRetryError")]
    ELSE IF resp.status # 200
    THEN [cache |-> c, result |-> Raise("APIError")]
    ELSE IF _filter_data(resp.body).kind = "raise"
    THEN [cache |-> c, result |-> Return(Text(req, resp.body))]
    ELSE LET w == _cache_response(c, resp.body, req, curtime, write) IN
         IF w.result.kind = "raise" THEN w
         ELSE [cache |-> w.cache, result |-> Return(Text(req, resp.body))]

\* _get_fresh: the directory afterwards and the payload or the exception.
_get_fresh(c, req, curtime, resp, write) ==
    IF ~resp.sent THEN [cache |-> c, result |-> Raise("MaxRetryError")]
    ELSE IF resp.status # 200
    THEN [cache |-> c, result |-> Raise("APIError")]
    ELSE LET w == _cache_response(c, resp.body, req, curtime, write) IN
         IF w.result.kind = "raise" THEN w
         ELSE [cache |-> w.cache, result |-> Return(Text(req, resp.body))]

\* What one get_weather invocation did: the request, the clock and the
\* duration it read, the cache file it found, how the lookup went ("hit",
\* "miss", or the exception it raised), whether a request was sent and
\* the status that came back, how the cache write went ("" when there was
\* none), the payload handed to _filter_data (NoText when none was) and
\* what get_weather returned or raised.
NoCall ==
    [req |-> NoRequest, at |-> 0, duration |-> 0, before |-> NoFile,
     lookup |-> "", fetches |-> 0, status |-> 0, write |-> "",
     source |-> NoText, result |-> NoReport]

\* get_weather: the directory afterwards and the record of the invocation.
get_weather(c, req, curtime, duration, read_fails, resp, write) ==
    LET call   == [NoCall EXCEPT !.req = req, !.at = curtime,
                                 !.duration = duration,
                                 !.before = c[Key(req)]]
        cached == _get_cached(c, req, curtime, duration, read_fails)
    IN
    IF cached.kind = "raise"
    THEN [cache |-> c,
          call  |-> [call EXCEPT !.lookup = cached.exc,
                                 !.result = RaiseReport(cached.exc)]]
    ELSE IF cached.value # NoText
    THEN [cache |-> c,
          call  |-> [call EXCEPT !.lookup = "hit",
                                 !.source = cached.value,
                                 !.result = _filter_data(cached.value.data)]]
    ELSE LET fresh == _get_fresh(c, req, curtime, resp, write)
             sent  == [call EXCEPT !.lookup = "miss", !.fetches = 1,
                                   !.status = resp.status,
                                   !.write = IF resp.sent /\ resp.status = 200
                                             THEN write ELSE ""]
         IN
         IF fresh.result.kind = "raise"
         THEN [cache |-> fresh.cache,
               call  |-> [sent EXCEPT
                            !.result = RaiseReport(fresh.result.exc)]]
         ELSE [cache |-> fresh.cache,
               call  |-> [sent EXCEPT
                            !.source = fresh.result.value,
                            !.result = _filter_data(fresh.result.value.data)]]

\* One invocation of get_weather, with what the file system and the
\* provider do during it.  An input the invocation never consults (the
\* read of a file that is absent or stale, the response when no request
\* is sent, the write when nothing is written) is held at one value.
GetWeather(req, read_fails, resp, write) ==
    LET r == get_weather(cache, req, now, cache_duration,
                         read_fails, resp, write)
        f == cache[Key(req)]
        fresh == f.exists /\ ~IsStale(now, f.mtime, cache_duration)
    IN  /\ read_fails => fresh
        /\ fresh => resp = [sent |-> FALSE, status |-> 0, body |-> GoodData]
        /\ (fresh \/ ~resp.sent \/ resp.status # 200) => write = "ok"
        /\ cache' = r.cache
        /\ last' = r.call
        /\ UNCHANGED <<now, ticks, cache_duration>>
        /\ UNCHANGED <<dirVars, filterVars, locVars, tmplVars>>

\* The set-cache command: set_cache_duration.
SetCache(duration) ==
    /\ cache_duration' = duration
    /\ UNCHANGED <<cache, now, ticks, last>>
    /\ UNCHANGED <<dirVars, filterVars, locVars, tmplVars>>

\* Time passes between two commands.
Tick(dt) ==
    /\ ticks < MaxTicks
    /\ ticks' = ticks + 1
    /\ now' = now + dt
    /\ UNCHANGED <<cache, cache_duration, last>>
    /\ UNCHANGED <<dirVars, filterVars, locVars, tmplVars>>

\* The values of the variables a specification does not use.
DirIdle    == degrees = 0 /\ direction = NotRun
FilterIdle == data = GoodData /\ filtered = NoReport
CacheIdle  == /\ cache = [k \in Keys |-> NoFile]
              /\ now = 0 /\ ticks = 0
              /\ cache_duration = DefaultCacheDuration
              /\ last = NoCall
LocIdle    == /\ locations = <<>>
              /\ default_location = None
              /\ echoed = NotRun
TmplIdle   == /\ templates = <<>>
              /\ default_template = None
              /\ rendered = NotRun

\* An empty cache directory, no configuration file.
Init == DirIdle /\ FilterIdle /\ CacheIdle /\ LocIdle /\ TmplIdle

Next ==
    \/ \E req \in Requests, read_fails \in BOOLEAN,
          resp \in Responses, write \in Writes :
            GetWeather(req, read_fails, resp, write)
    \/ \E duration \in Durations : SetCache(duration)
    \/ \E dt \in Elapsed : Tick(dt)

Spec == Init /\ [][Next]_vars

(***************************************************************************)
(* Properties of the cache and of get_weather, under Spec                  *)
(***************************************************************************)

GetWeatherStep ==
    \E req \in Requests, read_fails \in BOOLEAN,
       resp \in Responses, write \in Writes :
         GetWeather(req, read_fails, resp, write)

\* The age, at the last invocation, of the cache file it found.
LastAge == last.at - last.before.mtime

\* C2: the lookup misses exactly when there is no file for the key or the
\* file is older than cache_duration minutes; at exactly cache_duration
\* minutes the lookup is not a miss, one second later it is.
C2_LookupMissesIffAbsentOrOlder ==
    last.lookup # "" =>
        /\ last.lookup = "miss" <=>
             \/ ~last.before.exists
             \/ LastAge > last.duration * 60
        /\ (last.before.exists /\ LastAge = last.duration * 60)
             => last.lookup # "miss"
        /\ (last.before.exists /\ LastAge = last.duration * 60 + 1)
             => last.lookup = "miss" /\ last.fetches = 1

\* A hit on a file exactly cache_duration minutes old.
C2_HitAtExactAge ==
    /\ last.lookup = "hit"
    /\ last.before.exists
    /\ LastAge = last.duration * 60
    /\ LastAge > 0

\* C4: whenever get_weather fails, it fails with APIError.
C4_EveryFailureIsAPIError ==
    last.result.kind = "raise" => last.result.exc = "APIError"

\* C5: a failure reading the cache file is a miss that goes on to the
\* fetch, and a failure writing it does not fail get_weather.
C5_CacheFailuresAreNotFatal ==
    /\ last.lookup \in {"", "hit", "miss"}
    /\ last.write \in {"open_fails", "dump_fails"}
         => last.result.exc # "OSError"

\* C6: an invocation whose lookup misses and whose fetch comes back with a
\* status other than 200 leaves every cache file as it was.
C6_Non200LeavesCacheUnchanged ==
    [][ (last'.lookup = "miss" /\ last'.fetches = 1
           /\ last'.status # 0 /\ last'.status # 200 /\ GetWeatherStep)
        => cache' = cache ]_vars

\* A miss on a stale file, a 500, and the stale file still there.
C6_StaleEntryKeptAfter500 ==
    /\ last.lookup = "miss"
    /\ last.status = 500
    /\ last.before.exists
    /\ cache[Key(last.req)] = last.before

\* C7: a request is sent if and only if the file was absent or stale, and
\* at most once; a hit normalises the text of the file; a payload that was
\* fetched and handed to the normaliser is, by then, the text of the file
\* of the request's key, whether or not the normaliser fails on it.
C7_FetchIffMissAndStoredBeforeNormalised ==
    last.lookup # "" =>
        /\ last.fetches = 1 <=>
             \/ ~last.before.exists
             \/ LastAge > last.duration * 60
        /\ last.fetches <= 1
        /\ last.lookup = "hit" =>
             /\ last.source = last.before.text
             /\ last.result = _filter_data(last.source.data)
        /\ (last.fetches = 1 /\ last.status = 200 /\ last.write = "ok") =>
             /\ last.source.for = last.req
             /\ last.source.json = "ok"
             /\ cache[Key(last.req)] = File(last.at, last.source)
             /\ last.result = _filter_data(last.source.data)

\* A fetched payload on which the normaliser failed, stored all the same.
C7_StoredThoughNormaliserFailed ==
    /\ last.fetches = 1
    /\ last.result.exc = "KeyError"
    /\ cache[Key(last.req)] = File(last.at, last.source)

\* C9: a hit hands back a payload that was fetched for the latitude,
\* longitude and units of the request.
C9_HitIsForTheSameRequest ==
    last.lookup = "hit" => last.source.for = last.req

(***************************************************************************)
(* _interpret_direction on its own, under SpecDirection                    *)
(***************************************************************************)

\* Every degree value of [0, 360), in hundredths.
DegreeInputs == 0 .. 35999

InitDirection ==
    /\ degrees \in DegreeInputs
    /\ direction = NotRun
    /\ FilterIdle /\ CacheIdle /\ LocIdle /\ TmplIdle

InterpretDirection ==
    /\ direction = NotRun
    /\ direction' = _interpret_direction(degrees)
    /\ UNCHANGED <<degrees, filterVars, cacheVars, locVars, tmplVars>>

NextDirection == InterpretDirection

SpecDirection == InitDirection /\ [][NextDirection]_vars

\* The wedges both of whose bounds hold the value.
WedgesHolding(d) ==
    { i \in 1 .. Len(cardinals) : cardinals[i][1] <= d /\ d < cardinals[i][2] }

\* The label of the wedge both of whose bounds hold the value, and that of
\* the wedge at index 0 when there is none.
TightElseFirst(d) ==
    IF WedgesHolding(d) # {}
    THEN cardinals[CHOOSE i \in WedgesHolding(d) : TRUE][3]
    ELSE cardinals[1][3]

\* C1: for every degree value of [0, 360) the result is the label of the
\* one wedge with lower <= d < upper, N on [348.75, 360) and [0, 11.25);
\* it is the result of "tight match, else the wedge at index 0".
C1_DirectionIsTightElseFirst ==
    direction # NotRun =>
        /\ Cardinality(WedgesHolding(degrees)) <= 1
        /\ direction = TightElseFirst(degrees)
        /\ (degrees >= 34875 \/ degrees < 1125) <=> direction = "N"
        /\ direction = cardinals[((degrees + 1125) % 36000) \div 2250 + 1][3]
        /\ degrees = 0 => direction = "N"
        /\ degrees = 1124 => direction = "N"
        /\ degrees = 1125 => direction = "NNE"
        /\ degrees = 35990 => direction = "N"
        /\ degrees = 18000 => direction = "S"

\* 359.9 degrees, past the rollover, read as N.
C1_NorthPastRollover == degrees = 35990 /\ direction = "N"

(***************************************************************************)
(* _filter_data on its own, under SpecFilter                               *)
(***************************************************************************)

\* The floats of the payload run over -MaxEighths/8 .. MaxEighths/8.
MaxEighths == 6

FilterInputs ==
    { [GoodData EXCEPT !.temp = t, !.feels_like = f, !.speed = w,
                       !.deg = g, !.icon = i, !.has_wind = h] :
        t \in (0 - MaxEighths) .. MaxEighths,
        f \in (0 - MaxEighths) .. MaxEighths,
        w \in 0 .. MaxEighths,
        g \in {0, 1125, 18000},
        i \in {"01d", "99x"},
        h \in BOOLEAN }

InitFilter ==
    /\ data \in FilterInputs
    /\ filtered = NoReport
    /\ DirIdle /\ CacheIdle /\ LocIdle /\ TmplIdle

FilterData ==
    /\ filtered = NoReport
    /\ filtered' = _filter_data(data)
    /\ UNCHANGED <<data, dirVars, cacheVars, locVars, tmplVars>>

NextFilter == FilterData

SpecFilter == InitFilter /\ [][NextFilter]_vars

\* The value eighths / 8 lies exactly halfway between two multiples of
\* 10^-places.
IsTie(eighths, places) == 2 * ((Abs(eighths) * Pow10(places)) % 8) = 8

\* The result r, in units of 10^-places, is the multiple further from zero
\* of the two the value lies between.
IsFurtherFromZero(r, eighths, places) ==
    Abs(r) = (Abs(eighths) * Pow10(places)) \div 8 + 1

\* The result r, in units of 10^-places, is a multiple nearest to the
\* value, and the even one of the two when the value is halfway.
IsNearestTieToEven(r, eighths, places) ==
    LET off == Abs(8 * r - eighths * Pow10(places)) IN
    /\ off <= 4
    /\ off = 4 => r % 2 = 0

\* C3 as stated: a value exactly halfway is rounded to the result further
\* from zero.
C3_TiesRoundAwayFromZero ==
    filtered.kind = "return" =>
        /\ IsTie(data.temp, 1)
             => IsFurtherFromZero(filtered.temperature, data.temp, 1)
        /\ IsTie(data.feels_like, 1)
             => IsFurtherFromZero(filtered.feels_like, data.feels_like, 1)
        /\ IsTie(data.speed, 2)
             => IsFurtherFromZero(filtered.wind_speed, data.speed, 2)

\* C3 as amended: temperature and feels_like are rounded to 1 fractional
\* digit and wind speed to 2, to the nearest result, and a value exactly
\* halfway is rounded to the result whose last digit is even.
C3_TiesRoundToEven ==
    filtered.kind = "return" =>
        /\ IsNearestTieToEven(filtered.temperature, data.temp, 1)
        /\ IsNearestTieToEven(filtered.feels_like, data.feels_like, 1)
        /\ IsNearestTieToEven(filtered.wind_speed, data.speed, 2)

\* 0.25 degrees rounded to 0.2, and 0.125 m/s to 0.12.
C3_QuarterRoundsDown ==
    /\ data.temp = 2 /\ filtered.temperature = 2
    /\ data.speed = 1 /\ filtered.wind_speed = 12

(***************************************************************************)
(* _apply_template                                                         *)
(*                                                                         *)
(* A text is a sequence of atoms: the bar "|", or a maximal run of         *)
(* characters other than the bar (so no two runs are adjacent in a         *)
(* template).  An occurrence of the string |name| in a text is then a bar, *)
(* the atom name, a bar: the text between two consecutive bars is one      *)
(* atom, or several once a value has been put next to a run, and the       *)
(* values (digits, "#", capitals, ":") never complete a field name.        *)
(***************************************************************************)

Bar == "|"

Digit(d) ==
    CASE d = 0 -> "0" [] d = 1 -> "1" [] d = 2 -> "2" [] d = 3 -> "3"
      [] d = 4 -> "4" [] d = 5 -> "5" [] d = 6 -> "6" [] d = 7 -> "7"
      [] d = 8 -> "8" [] d = 9 -> "9"

\* str() of a natural number.
RECURSIVE NatStr(_)
NatStr(n) == IF n < 10 THEN Digit(n) ELSE NatStr(n \div 10) \o Digit(n % 10)

\* The last `places` digits of n, zero-padded.
RECURSIVE FractionStr(_, _)
FractionStr(n, places) ==
    IF places = 0 THEN ""
    ELSE FractionStr(n \div 10, places - 1) \o Digit(n % 10)

\* str() of a Decimal of n units of 10^-places.
DecimalStr(n, places) ==
    (IF n < 0 THEN "-" ELSE "")
        \o NatStr(Abs(n) \div Pow10(places)) \o "."
        \o FractionStr(Abs(n) % Pow10(places), places)

\* strftime('%H:%M') of a datetime.
ClockStr(t) ==
    LET minutes == (t % 86400) \div 60
        hh == minutes \div 60
        mm == minutes % 60
    IN  Digit(hh \div 10) \o Digit(hh % 10) \o ":"
            \o Digit(mm \div 10) \o Digit(mm % 10)

\* str() of a datetime, which names its instant (a text without a bar).
DatetimeStr(t) == "datetime " \o NatStr(t)

\* The table subs: the field names in its order, each with the string that
\* replaces its token.
subs(weather) ==
    << <<"icon", weather.icon>>,
       <<"icon_colour", weather.icon_colour>>,
       <<"temperature", DecimalStr(weather.temperature, 1)>>,
       <<"feels_like", DecimalStr(weather.feels_like, 1)>>,
       <<"calculated_at", DatetimeStr(weather.calculated_at)>>,
       <<"pressure", NatStr(weather.pressure)>>,
       <<"humidity", NatStr(weather.humidity)>>,
       <<"sunrise", ClockStr(weather.sunrise)>>,
       <<"sunset", ClockStr(weather.sunset)>>,
       <<"wind_speed", DecimalStr(weather.wind_speed, 2)>>,
       <<"wind_direction", weather.wind_direction>> >>

\* A slip: only the first occurrence is replaced.
RECURSIVE ReplaceFirstOnly(_, _, _, _)
ReplaceFirstOnly(text, i, name, value) ==
    IF i > Len(text) THEN <<>>
    ELSE IF /\ i + 2 <= Len(text)
            /\ text[i] = Bar /\ text[i + 1] = name /\ text[i + 2] = Bar
         THEN <<value>> \o SubSeq(text, i + 3, Len(text))
         ELSE <<text[i]>> \o ReplaceFirstOnly(text, i + 1, name, value)

\* formatted.replace(f'|{name}|', value) from atom i on: the occurrences
\* from left to right, none overlapping the one before it.
RECURSIVE Replace(_, _, _, _)
Replace(text, i, name, value) ==
    IF i > Len(text) THEN <<>>
    ELSE IF /\ i + 2 <= Len(text)
            /\ text[i] = Bar /\ text[i + 1] = name /\ text[i + 2] = Bar
         THEN <<value>> \o Replace(text, i + 3, name, value)
         ELSE <<text[i]>> \o Replace(text, i + 1, name, value)

\* The loop over subs from entry k on.
RECURSIVE ApplySubs(_, _, _)
ApplySubs(text, table, k) ==
    IF k > Len(table) THEN text
    ELSE ApplySubs(Replace(text, 1, table[k][1], table[k][2]), table, k + 1)

\* What rendering hands back: the template it used and the text, or the
\* exception.
NoTemplate == [set |-> FALSE, text |-> <<>>]

Saved(text) == [set |-> TRUE, text |-> text]

NotRendered == [kind |-> "none", exc |-> "", template |-> <<>>, out |-> <<>>]

\* _apply_template: default is get_default_template(), saved the table
\* [templates] of the configuration.
_apply_template(weather, template_name, default, saved) ==
    LET name == IF template_name = None THEN default ELSE template_name IN
    IF name = None
    THEN [kind |-> "return", exc |-> "",
          template |-> <<Bar, "temperature", Bar>>,
          out |-> ApplySubs(<<Bar, "temperature", Bar>>, subs(weather), 1)]
    ELSE IF ~saved[name].set
    THEN [NotRendered EXCEPT !.kind = "raise", !.exc = "ArgumentError"]
    ELSE [kind |-> "return", exc |-> "",
          template |-> saved[name].text,
          out |-> ApplySubs(saved[name].text, subs(weather), 1)]

(***************************************************************************)
(* _apply_template on its own, under SpecTemplate                          *)
(***************************************************************************)

\* A template has at most this many atoms.
MaxTemplateLen == 7

\* The atoms of the templates: the bar, two field names, a name that is no
\* field, and plain text.
Atoms == {Bar, "temperature", "feels_like", "bogus", " feels like "}

\* No two runs of characters other than the bar are adjacent.
IsText(t) ==
    \A i \in 1 .. Len(t) - 1 : t[i] = Bar \/ t[i + 1] = Bar

TemplateTexts ==
    { t \in UNION { [1 .. n -> Atoms] : n \in 0 .. MaxTemplateLen } :
        IsText(t) }

TemplateNames == {"t"}

\* The report the templates are applied to.
SampleWeather == _filter_data(GoodData)

\* Any configuration the save-template, delete-template and
\* set-default-template commands leave behind.
InitTemplate ==
    /\ templates \in [TemplateNames ->
                        {NoTemplate} \cup { Saved(t) : t \in TemplateTexts }]
    /\ default_template \in {None} \cup TemplateNames
    /\ rendered = NotRendered
    /\ DirIdle /\ FilterIdle /\ CacheIdle /\ LocIdle

ApplyTemplate(template_name) ==
    /\ rendered = NotRendered
    /\ rendered' = _apply_template(SampleWeather, template_name,
                                   default_template, templates)
    /\ UNCHANGED <<templates, default_template>>
    /\ UNCHANGED <<dirVars, filterVars, cacheVars, locVars>>

NextTemplate ==
    \E template_name \in {None} \cup TemplateNames :
        ApplyTemplate(template_name)

SpecTemplate == InitTemplate /\ [][NextTemplate]_vars

FieldNames == { subs(SampleWeather)[k][1] : k \in 1 .. Len(subs(SampleWeather)) }

\* The string form of the report's field of that name.
FieldValue(name) ==
    LET table == subs(SampleWeather)
    IN  table[CHOOSE k \in 1 .. Len(table) : table[k][1] = name][2]

\* The places where the token |word| stands in a text.
TokenPlaces(text, word) ==
    { i \in 1 .. Len(text) - 2 :
        text[i] = Bar /\ text[i + 1] = word /\ text[i + 2] = Bar }

\* The text read token by token from atom i on, the bars paired from left
\* to right: a token of a field name gives the field's string form, every
\* other token and all text outside the tokens stays as it is.
RECURSIVE RenderTokens(_, _)
RenderTokens(text, i) ==
    IF i > Len(text) THEN <<>>
    ELSE IF text[i] # Bar THEN <<text[i]>> \o RenderTokens(text, i + 1)
    ELSE IF i + 1 <= Len(text) /\ text[i + 1] = Bar
         THEN <<Bar, Bar>> \o RenderTokens(text, i + 2)
    ELSE IF i + 2 <= Len(text) /\ text[i + 2] = Bar
         THEN (IF text[i + 1] \in FieldNames
               THEN <<FieldValue(text[i + 1])>>
               ELSE <<Bar, text[i + 1], Bar>>)
              \o RenderTokens(text, i + 3)
    ELSE SubSeq(text, i, Len(text))

\* Some text that lies outside the tokens, between the closing bar of one
\* and the next bar, is exactly a field name.
RECURSIVE HasNameBetweenTokens(_, _)
HasNameBetweenTokens(text, i) ==
    IF i > Len(text) THEN FALSE
    ELSE IF text[i] # Bar
         THEN \/ /\ i > 1 /\ i + 1 <= Len(text)
                 /\ text[i] \in FieldNames
              \/ HasNameBetweenTokens(text, i + 1)
    ELSE IF i + 1 <= Len(text) /\ text[i + 1] = Bar
         THEN HasNameBetweenTokens(text, i + 2)
    ELSE IF i + 2 <= Len(text) /\ text[i + 2] = Bar
         THEN HasNameBetweenTokens(text, i + 3)
    ELSE FALSE

\* The number of tokens |word| of a text from atom i on, the bars paired
\* from left to right.
RECURSIVE CountTokens(_, _, _)
CountTokens(text, i, word) ==
    IF i > Len(text) THEN 0
    ELSE IF text[i] # Bar THEN CountTokens(text, i + 1, word)
    ELSE IF i + 1 <= Len(text) /\ text[i + 1] = Bar
         THEN CountTokens(text, i + 2, word)
    ELSE IF i + 2 <= Len(text) /\ text[i + 2] = Bar
         THEN (IF text[i + 1] = word THEN 1 ELSE 0)
              + CountTokens(text, i + 3, word)
    ELSE 0

\* C8 as stated: no token of a field name is left in the output, and every
\* other token |x| of the template is in the output as it was, whatever
\* stands around it.
C8_UnrecognisedTokensVerbatim ==
    rendered.kind = "return" =>
        /\ \A name \in FieldNames : TokenPlaces(rendered.out, name) = {}
        /\ \A word \in Atoms \ (FieldNames \cup {Bar}) :
             Cardinality(TokenPlaces(rendered.out, word))
               >= CountTokens(rendered.template, 1, word)

\* C8 as amended: when no text between the closing bar of one token and
\* the next bar is itself a field name, every token of a field name is
\* replaced by the field's string form and everything else, the other
\* tokens included, is left as it was; with neither a template name nor a
\* default template, the template is exactly "|temperature|".
C8_TokensRenderedUnlessNameBetween ==
    rendered.kind = "return" =>
        /\ ~HasNameBetweenTokens(rendered.template, 1)
             => rendered.out = RenderTokens(rendered.template, 1)
        /\ (templates["t"] = NoTemplate /\ default_template = None)
             => /\ rendered.template = <<Bar, "temperature", Bar>>
                /\ rendered.out = <<"21.2">>

\* "|bogus| feels like |temperature|" rendered: the unknown token left in
\* place, the temperature put for its token.
C8_UnknownTokenKeptBesideRendered ==
    /\ rendered.template =
         <<Bar, "bogus", Bar, " feels like ", Bar, "temperature", Bar>>
    /\ rendered.out = <<Bar, "bogus", Bar, " feels like ", "21.2">>

(***************************************************************************)
(* The named locations and the default location, under SpecLocations       *)
(*                                                                         *)
(* Each command is a process of its own: it loads the configuration file,  *)
(* changes the document in memory and writes the file in its last step,    *)
(* so a command that raises before _save_config leaves the file as it was. *)
(***************************************************************************)

LocationNames == {"home", "work", "away"}

Coordinates ==
    { [latitude |-> "1", longitude |-> "23"],
      [latitude |-> "12", longitude |-> "3"] }

NoLocation == [saved |-> FALSE, latitude |-> "", longitude |-> ""]

Location(at) ==
    [saved |-> TRUE, latitude |-> at.latitude, longitude |-> at.longitude]

\* get_named_location: the place, or ArgumentError.
get_named_location(table, name) ==
    IF table[name].saved
    THEN [kind |-> "return", exc |-> "", value |-> table[name]]
    ELSE [kind |-> "raise", exc |-> "ArgumentError", value |-> NoLocation]

\* The save-location command, given a latitude and a longitude.
SaveLocation(name, at) ==
    /\ locations' = [locations EXCEPT ![name] = Location(at)]
    /\ echoed' = "Location saved."
    /\ UNCHANGED default_location
    /\ UNCHANGED <<dirVars, filterVars, cacheVars, tmplVars>>

\* The delete-location command: config.delete_location clears the default
\* when it is the name, deletes the name and saves; when the name is not
\* saved the deletion raises and nothing is saved.
DeleteLocation(name) ==
    /\ IF locations[name].saved
       THEN /\ locations' = [locations EXCEPT ![name] = NoLocation]
            /\ default_location' =
                 IF default_location = name THEN None ELSE default_location
            /\ echoed' = "Location deleted."
       ELSE /\ UNCHANGED <<locations, default_location>>
            /\ echoed' = "Location not found."
    /\ UNCHANGED <<dirVars, filterVars, cacheVars, tmplVars>>

\* The set-default-location command: config.set_default_location sets
\* the name, saved or not, and saves.
SetDefaultLocation(name) ==
    /\ default_location' = name
    /\ echoed' = "Default location set."
    /\ UNCHANGED locations
    /\ UNCHANGED <<dirVars, filterVars, cacheVars, tmplVars>>

\* The fetch command with no --location, --address, --latitude or
\* --longitude, up to the place it goes on with.
FetchDefault ==
    /\ echoed' =
         IF default_location = None THEN "no location"
         ELSE IF get_named_location(locations, default_location).kind = "raise"
         THEN "The default location no longer exists."
         ELSE "default location"
    /\ UNCHANGED <<locations, default_location>>
    /\ UNCHANGED <<dirVars, filterVars, cacheVars, tmplVars>>

\* No configuration file.
InitLocations ==
    /\ locations = [n \in LocationNames |-> NoLocation]
    /\ default_location = None
    /\ echoed = NotRun
    /\ DirIdle /\ FilterIdle /\ CacheIdle /\ TmplIdle

NextLocations ==
    \/ \E name \in LocationNames, at \in Coordinates : SaveLocation(name, at)
    \/ \E name \in LocationNames : DeleteLocation(name)
    \/ \E name \in LocationNames : SetDefaultLocation(name)
    \/ FetchDefault

SpecLocations == InitLocations /\ [][NextLocations]_vars

\* C10: the default location, when there is one, is the name of a saved
\* location, and the fetch command never says that it no longer exists.
C10_DefaultLocationIsSaved ==
    /\ default_location # None => locations[default_location].saved
    /\ echoed # "The default location no longer exists."

====
